---- MODULE Spec2Model ----
(***************************************************************************)
(* Model of src/support_case_reviewer/guidelines_fetcher.py.               *)
(*                                                                         *)
(* Text is a sequence of tokens.  A token is one character of visible text *)
(* ("a", "b", " ", "\n", ...), one whole tag of serialised markup ("<b>",  *)
(* "<br/>", ...) or one fixed piece of output ("**", "##", "1", ...).      *)
(* Python's None and raised exceptions are records, so that every function *)
(* of the program is a total operator: Ok(v) is a normal return of v,      *)
(* Raise(e) is exception e leaving the function.                           *)
(***************************************************************************)
EXTENDS Integers, Sequences, FiniteSets, TLC

\* ---------------------------------------------------------------- Constants
MIN_ITEMS_COUNT == 10
LINEBREAK_MARKER == "|||LINEBREAK|||"
MARKDOWN_LINE_BREAK == <<" ", " ", "\n">>
SECTION_SEPARATOR == <<"\n", "\n">>
ERROR_MESSAGE == <<"ERROR_MESSAGE">>

\* ------------------------------------------------------------------- Bounds
MaxLiLen == 5
MaxLis == 3
MaxScripts == 3
MaxItems == 3
NumCalls == 2

\* ------------------------------------------------------- Python value model
None == [pytype |-> "None"]
Ok(v) == [ok |-> TRUE, val |-> v]
Raise(e) == [ok |-> FALSE, exc |-> e]

\* The element of a set of one element.
TheOne(S) == CHOOSE x \in S : TRUE

\* --------------------------------------------------------------- str helpers
\* str.strip() removes leading and trailing whitespace characters.
Whitespace == {" ", "\n"}

Strip(s) ==
    LET Inked == {k \in 1..Len(s) : s[k] \notin Whitespace} IN
    IF Inked = {} THEN <<>>
    ELSE SubSeq(s, CHOOSE k \in Inked : \A m \in Inked : k <= m,
                   CHOOSE k \in Inked : \A m \in Inked : m <= k)

\* The list of text when it is not empty, the empty list when it is: what
\* "if text: lines.append(text)" adds.
IfText(text) == IF text # <<>> THEN <<text>> ELSE <<>>

\* sep.join(parts): parts is a sequence of texts, sep a text.
RECURSIVE Join(_, _)
Join(parts, sep) ==
    IF parts = <<>> THEN <<>>
    ELSE IF Len(parts) = 1 THEN parts[1]
    ELSE parts[1] \o sep \o Join(Tail(parts), sep)

\* s.split(tok) for a one-token separator, from position i on, part being
\* the part begun: always at least one part.
RECURSIVE SplitFrom(_, _, _, _)
SplitFrom(s, tok, i, part) ==
    IF i > Len(s) THEN <<part>>
    ELSE IF s[i] = tok THEN <<part>> \o SplitFrom(s, tok, i + 1, <<>>)
    ELSE SplitFrom(s, tok, i + 1, Append(part, s[i]))

Split(s, tok) == SplitFrom(s, tok, 1, <<>>)

\* [line.strip() for line in parts if line.strip()]
RECURSIVE StrippedNonEmpty(_)
StrippedNonEmpty(parts) ==
    IF parts = <<>> THEN <<>>
    ELSE IfText(Strip(Head(parts))) \o StrippedNonEmpty(Tail(parts))

\* All sequences over S of length at most n.
SeqsUpTo(S, n) == UNION {[1..k -> S] : k \in 0..n}

\* ------------------------------------------------------------ CompiledRegex
\* Tokens that are one tag of serialised markup: what HTML_TAG, <[^>]+>, matches.
TagTokens == {"<li>", "</li>", "<b>", "</b>", "<br>", "<br/>", "<BR>", "<br />",
              "<i>", "</i>", "<ul>", "</ul>"}

\* What BR_TAG, <br\s*/?> with IGNORECASE, matches.
BrTokens == {"<br>", "<br/>", "<BR>", "<br />"}

\* BOLD_TAG.sub(r'**\1**', s) from position i on: leftmost <b>, lazily up to
\* the first </b> after it, then on from behind that </b>; a <b> with no </b>
\* after it is left alone.
RECURSIVE BoldSubFrom(_, _)
BoldSubFrom(s, i) ==
    IF i > Len(s) THEN <<>>
    ELSE LET Closes == {j \in (i + 1)..Len(s) : s[j] = "</b>"} IN
         IF s[i] = "<b>" /\ Closes # {}
         THEN TheOne({ <<"**">> \o SubSeq(s, i + 1, j - 1) \o <<"**">> \o BoldSubFrom(s, j + 1) :
                       j \in {CHOOSE j \in Closes : \A k \in Closes : j <= k} })
         ELSE <<s[i]>> \o BoldSubFrom(s, i + 1)

BoldSubAll(s) == BoldSubFrom(s, 1)

BOLD_TAG_sub(s) == BoldSubAll(s)

\* BR_TAG.sub(LINEBREAK_MARKER, s)
BR_TAG_sub(s) == [k \in 1..Len(s) |-> IF s[k] \in BrTokens THEN LINEBREAK_MARKER ELSE s[k]]

\* HTML_TAG.sub('', s)
HTML_TAG_sub(s) == SelectSeq(s, LAMBDA t : t \notin TagTokens)

\* ------------------------------------------ HTMLToMarkdownConverter (li part)
\* str(li_element): the li's own tags around its serialised content.
Serialise(li) == <<"<li>">> \o li \o <<"</li>">>

\* A variant that strips the segments and keeps the empty ones.
RECURSIVE StripEach(_)
StripEach(parts) ==
    IF parts = <<>> THEN <<>> ELSE <<Strip(Head(parts))>> \o StripEach(Tail(parts))

SplitLinesKeepEmpty(text) == StripEach(Split(text, LINEBREAK_MARKER))

\* lines = [line.strip() for line in text.split(LINEBREAK_MARKER) if line.strip()]
SplitLines(text) == StrippedNonEmpty(Split(text, LINEBREAK_MARKER))

\* _process_li_content as one function.
process_li_content(li) ==
    Join(SplitLines(Strip(HTML_TAG_sub(BR_TAG_sub(BOLD_TAG_sub(Serialise(li)))))),
         MARKDOWN_LINE_BREAK)

\* --------------------------------------------- HTMLToMarkdownConverter lists
\* A parsed element is a record: [tag |-> "li", content |-> <tokens>] is a li
\* with the serialisation of its children; [tag |-> "text", text |-> <tokens>]
\* is a text node; [tag |-> "ul" or "ol", children |-> <nodes>] is a list.

\* lambda i, text: f"- {text}"
unordered_formatter(i, text) == <<"-", " ">> \o text

ordered_formatter_zero_based(i, text) == <<ToString(i), ".", " ">> \o text

\* lambda i, text: f"{i+1}. {text}"
ordered_formatter(i, text) == <<ToString(i + 1), ".", " ">> \o text

\* The formatter _convert_unordered_list / _convert_ordered_list hands over.
Formatter(name, i, text) ==
    IF name = "ol" THEN ordered_formatter(i, text) ELSE unordered_formatter(i, text)

\* if li_text: lines.append(formatter(i, li_text))
ListLine(name, i, li_text) == IF li_text # <<>> THEN <<Formatter(name, i, li_text)>> ELSE <<>>

\* list_element.find_all('li', recursive=False): the direct li children.
find_all_li(list_element) == SelectSeq(list_element.children, LAMBDA n : n.tag = "li")

\* The loop of _convert_list from index i (0-based, as enumerate counts).
RECURSIVE ConvertListFrom(_, _, _)
ConvertListFrom(name, lis, i) ==
    IF i >= Len(lis) THEN <<>>
    ELSE ListLine(name, i, process_li_content(lis[i + 1].content))
             \o ConvertListFrom(name, lis, i + 1)

\* _convert_list (through _convert_unordered_list / _convert_ordered_list)
convert_list(list_element) ==
    Join(ConvertListFrom(list_element.tag, find_all_li(list_element), 0), <<"\n">>)

\* ------------------------------------- HTMLToMarkdownConverter, other elements
\* [tag |-> "p" or another name, strings |-> <texts>] is an element with the
\* strings below it, in document order; [tag |-> "table", rows |-> <rows>] is a
\* table, a row being the sequence of its th/td cells and a cell the strings
\* below it.

\* element.get_text(strip=True): every string stripped, the empty ones left
\* out, the rest joined by ''.
get_text_strip(strings) == Join(StrippedNonEmpty(strings), <<>>)

\* [c.get_text(strip=True) for c in row.find_all(['th', 'td'])]
RECURSIVE CellTexts(_)
CellTexts(row) ==
    IF row = <<>> THEN <<>> ELSE <<get_text_strip(Head(row))>> \o CellTexts(Tail(row))

\* '| ' + ' | '.join(cells) + ' |'
PipeRow(cells) == <<"|", " ">> \o Join(cells, <<" ", "|", " ">>) \o <<" ", "|">>

\* ['---'] * len(headers)
Dashes(n) == [k \in 1..n |-> <<"---">>]

\* if cells: lines.append('| ' + ' | '.join(cells) + ' |')
RowLines(cells) == IF cells # <<>> THEN <<PipeRow(cells)>> ELSE <<>>

\* if headers: the header line and the line of dashes.
HeaderLines(headers) ==
    IF headers # <<>> THEN <<PipeRow(headers), PipeRow(Dashes(Len(headers)))>> ELSE <<>>

\* The data rows' loop of _convert_table.
RECURSIVE DataLines(_)
DataLines(rows) ==
    IF rows = <<>> THEN <<>>
    ELSE RowLines(CellTexts(Head(rows))) \o DataLines(Tail(rows))

\* _convert_table
convert_table(table_element) ==
    LET rows == table_element.rows IN
    IF rows = <<>> THEN <<>>
    ELSE Join(HeaderLines(CellTexts(rows[1])) \o DataLines(Tail(rows)), <<"\n">>)

\* _convert_element: the dispatch on the tag name.
convert_element(element) ==
    IF element.tag \in {"ul", "ol"} THEN convert_list(element)
    ELSE IF element.tag = "table" THEN convert_table(element)
    ELSE get_text_strip(element.strings)

\* The loop of convert_html_to_markdown over soup.children.
RECURSIVE ConvertChildren(_)
ConvertChildren(nodes) ==
    IF nodes = <<>> THEN <<>>
    ELSE IfText(IF Head(nodes).tag = "text" THEN Strip(Head(nodes).text)
                ELSE convert_element(Head(nodes)))
             \o ConvertChildren(Tail(nodes))

\* An HTML string is modelled by the nodes html.parser makes of it: it is ''
\* when there are none, and whitespace when all are whitespace text.
IsBlankHtml(nodes) ==
    \A k \in 1..Len(nodes) : nodes[k].tag = "text" /\ Strip(nodes[k].text) = <<>>

\* convert_html_to_markdown
convert_html_to_markdown(html_content) ==
    IF IsBlankHtml(html_content) THEN <<>>
    ELSE Join(ConvertChildren(html_content), <<"\n">>)

\* --------------------------------------------------------- JSON value model
\* A JSON value is a record with its Python type; a key a dict does not hold
\* is Missing.
Missing == [pytype |-> "missing"]
PyStr(s) == [pytype |-> "str", s |-> s]
PyInt(n) == [pytype |-> "int", n |-> n]
PyList(elems) == [pytype |-> "list", elems |-> elems]
\* A str that holds markup, as the nodes html.parser makes of it.
Html(nodes) == [pytype |-> "html", nodes |-> nodes]

IsDict(v) == v.pytype = "dict"
IsList(v) == v.pytype = "list"

\* bool(v)
Truthy(v) ==
    CASE v.pytype = "str" -> v.s # <<>>
      [] v.pytype = "html" -> v.nodes # <<>>
      [] v.pytype = "list" -> v.elems # <<>>
      [] v.pytype = "int" -> v.n # 0
      [] v.pytype = "dict" -> TRUE
      [] OTHER -> FALSE

\* d.get(key, default) where Get's caller names the key's field.
OrDefault(v, default) == IF v = Missing THEN default ELSE v

\* ------------------------------------------------ JSONDataProcessor, assembly
HeadingNotEmpty(heading) == Truthy(heading)

\* bool(heading and heading != 'NA')
HeadingValid(heading) == Truthy(heading) /\ heading # PyStr(<<"NA">>)

\* _is_valid_item: Ok(TRUE/FALSE), or the AttributeError of .get on a non-dict.
is_valid_item(item) ==
    IF item.fields = Missing THEN Ok(FALSE)
    ELSE IF ~IsDict(item.fields) THEN Raise("AttributeError")
    ELSE Ok(HeadingValid(OrDefault(item.fields.itemHeading, PyStr(<<>>))))

\* _extract_category: the name as a Str, or None.
extract_category(item) ==
    LET metadata == OrDefault(item.metadata, [pytype |-> "dict", tags |-> Missing]) IN
    IF ~IsDict(metadata) THEN None
    ELSE LET tags == OrDefault(metadata.tags, PyList(<<>>)) IN
         IF ~IsList(tags) \/ ~Truthy(tags) THEN None
         ELSE LET first_tag == tags.elems[1] IN
              IF ~IsDict(first_tag) THEN None
              ELSE LET name == OrDefault(first_tag.name, PyStr(<<>>)) IN
                   IF Truthy(name) THEN name ELSE None

CategoryPresent(category, current_category) == Truthy(category)

\* if category and category != current_category
CategoryChanged(category, current_category) ==
    Truthy(category) /\ category # current_category

BodyAlways(markdown_content) == <<Strip(markdown_content)>>

\* stripped_content = markdown_content.strip(); if stripped_content: append
BodySections(markdown_content) ==
    IF Strip(markdown_content) # <<>> THEN <<Strip(markdown_content)>> ELSE <<>>

\* A section is its text and, for the record, what made it: kind is "cat"
\* (## category), "head" (### heading) or "body", item the index of the item.
Section(kind, text, idx) == [kind |-> kind, text |-> text, item |-> idx]

BodiesOf(texts, idx) == [k \in 1..Len(texts) |-> Section("body", texts[k], idx)]

\* _convert_item_to_markdown_sections: Ok(sections), or the AttributeError of
\* .strip() on a content that is no str.
convert_item_to_markdown_sections(item, idx) ==
    LET heading == OrDefault(item.fields.itemHeading, PyStr(<<>>))
        head == Section("head", <<"###", " ">> \o heading.s, idx)
        content == OrDefault(item.fields.itemLongLoc, PyStr(<<>>))
    IN  IF ~Truthy(content) THEN Ok(<<head>>)
        ELSE IF content.pytype # "html" THEN Raise("AttributeError")
        ELSE Ok(<<head>> \o BodiesOf(BodySections(convert_html_to_markdown(content.nodes)), idx))

\* The end of one turn of the loop of process_json_data, for a valid item
\* with category category whose sections are made.
Emit(category, idx, current_category, sections, made) ==
    IF ~made.ok THEN made
    ELSE IF CategoryChanged(category, current_category)
    THEN Ok([current_category |-> category,
             sections |-> Append(sections, Section("cat", <<"##", " ">> \o category.s, idx))
                              \o made.val])
    ELSE Ok([current_category |-> current_category, sections |-> sections \o made.val])

\* One turn of the loop of process_json_data: the new current_category and
\* sections, or the exception that leaves the loop.
ItemStep(item, idx, current_category, sections) ==
    IF ~is_valid_item(item).ok THEN is_valid_item(item)
    ELSE IF ~is_valid_item(item).val
    THEN Ok([current_category |-> current_category, sections |-> sections])
    ELSE Emit(extract_category(item), idx, current_category, sections,
              convert_item_to_markdown_sections(item, idx))

\* Constants.SECTION_SEPARATOR.join(sections)
Document(sections) == Join([k \in 1..Len(sections) |-> sections[k].text], SECTION_SEPARATOR)

\* The loop of process_json_data from item i: the final current_category and
\* sections, or the exception that leaves it.
RECURSIVE ProcessFrom(_, _, _, _)
ProcessFrom(items, i, current_category, sections) ==
    IF i > Len(items)
    THEN Ok([current_category |-> current_category, sections |-> sections])
    ELSE TheOne({ IF ~r.ok THEN r
                  ELSE ProcessFrom(items, i + 1, r.val.current_category, r.val.sections) :
                  r \in {ItemStep(items[i], i, current_category, sections)} })

CategoryKept(left) == left

\* current_category = None: a local of the call, whatever category an earlier
\* call of process_json_data ended with (left).
InitialCategory(left) == None

\* process_json_data: Ok(document) or the exception raised.
process_json_data(items) ==
    LET r == ProcessFrom(items, 1, InitialCategory(None), <<>>)
    IN  IF r.ok THEN Ok(Document(r.val.sections)) ELSE r

\* ------------------------------------------------ JSONDataProcessor, location
\* A script tag is [string |-> s, loads |-> r]: s is script.string (None, or a
\* PyStr) and r what json.loads(s) does: Ok(value) or Raise("JSONDecodeError").
Script(string, loads) == [string |-> string, loads |-> loads]
Json(data) == [pytype |-> "dict", data |-> data]
Data(its) == [pytype |-> "dict", items |-> its]

TooFewOrMin(its) == Len(its.elems) <= MIN_ITEMS_COUNT

\* len(items) < Constants.MIN_ITEMS_COUNT
TooFew(its) == Len(its.elems) < MIN_ITEMS_COUNT

\* _extract_guideline_items_from_json
extract_guideline_items_from_json(data) ==
    IF ~IsDict(data) \/ data.data = Missing THEN None
    ELSE LET data_section == data.data IN
         IF ~IsDict(data_section) \/ data_section.items = Missing THEN None
         ELSE LET its == data_section.items IN
              IF ~IsList(its) \/ TooFew(its) THEN None
              ELSE IF /\ Truthy(its)
                      /\ IsDict(its.elems[1])
                      /\ its.elems[1].fields # Missing
                   THEN its
                   ELSE None

\* One turn of the loop of extract_json_data: [found |-> TRUE, items |-> ...]
\* when the script makes it return, [found |-> FALSE] when it goes on.
ScriptStep(script) ==
    IF ~Truthy(script.string) THEN [found |-> FALSE]
    ELSE IF ~script.loads.ok THEN [found |-> FALSE]
    ELSE LET its == extract_guideline_items_from_json(script.loads.val)
         IN  IF Truthy(its) THEN [found |-> TRUE, items |-> its] ELSE [found |-> FALSE]

RECURSIVE ExtractFrom(_, _)
ExtractFrom(script_tags, i) ==
    IF i > Len(script_tags) THEN None
    ELSE LET r == ScriptStep(script_tags[i])
         IN  IF r.found THEN r.items ELSE ExtractFrom(script_tags, i + 1)

\* extract_json_data: the item list, or None.
extract_json_data(script_tags) == ExtractFrom(script_tags, 1)

\* --------------------------------------------------------- GuidelinesFetcher
\* A fetched page is [markup, rejected, scripts, strings]: markup says whether
\* the text holds any tag, rejected whether html.parser refuses it, scripts
\* are its application/json script tags and strings its visible strings, in
\* document order.  The text is '' or whitespace when it has no tag and no
\* other character.
IsBlankPage(html) ==
    ~html.markup /\ \A k \in 1..Len(html.strings) : Strip(html.strings[k]) = <<>>

\* _extract_all_text: get_text(separator='\n', strip=True), then the lines of
\* that, stripped, without the empty ones, joined by '\n'.
extract_all_text(html) ==
    LET text == Join(StrippedNonEmpty(html.strings), <<"\n">>)
    IN  Join(StrippedNonEmpty(Split(text, "\n")), <<"\n">>)

StructuredOrFallback(assembled, html) ==
    IF assembled.ok /\ assembled.val.doc = <<>>
    THEN Ok([doc |-> extract_all_text(html), left |-> assembled.val.left])
    ELSE assembled

\* return self.json_processor.process_json_data(json_data)
StructuredResult(assembled, html) == assembled

\* What process_json_data returns and leaves, from the end of its loop.
Assembled(r) ==
    IF r.ok THEN Ok([doc |-> Document(r.val.sections), left |-> r.val.current_category])
    ELSE r

\* The rest of _parse_content once extract_json_data has returned found.
ParseFound(html, left, found) ==
    IF Truthy(found)
    THEN StructuredResult(Assembled(ProcessFrom(found.elems, 1, InitialCategory(left), <<>>)),
                          html)
    ELSE Ok([doc |-> extract_all_text(html), left |-> left])

\* _parse_content, run when the last call of process_json_data on this
\* processor ended with category left: Ok([doc, left]) with the text returned
\* and the category this call ends with, or the exception raised.
parse_content(html, left) ==
    IF IsBlankPage(html) THEN Ok([doc |-> <<>>, left |-> left])
    ELSE IF html.rejected THEN Raise("ParserRejectedMarkup")
    ELSE ParseFound(html, left, extract_json_data(html.scripts))

\* The exceptions of the model, all subclasses of Exception.
FetchErrors == {"ConnectError", "TimeoutException", "HTTPStatusError"}

CatchesFetchErrors(exc) == exc \in FetchErrors

\* except Exception
Catches(exc) == TRUE

NeverEmpty(result) == FALSE

\* not result or not result.strip()
IsEmptyResult(result) == result = <<>> \/ Strip(result) = <<>>

\* get_guidelines up to the end of _parse_content: fetched is what
\* _fetch_from_url did, Ok(html) or Raise(exception).
Parsed(fetched, left) == IF fetched.ok THEN parse_content(fetched.val, left) ELSE fetched

\* The end of get_guidelines: [returns |-> text] is a return, [raises |-> exc]
\* an exception that reaches the caller.
Returned(parsed) ==
    IF ~parsed.ok
    THEN IF Catches(parsed.exc) THEN [returns |-> ERROR_MESSAGE] ELSE [raises |-> parsed.exc]
    ELSE IF IsEmptyResult(parsed.val.doc) THEN [returns |-> ERROR_MESSAGE]
    ELSE [returns |-> parsed.val.doc]

\* The category the processor's last call of process_json_data ended with.
LeftBehind(parsed, left) == IF parsed.ok THEN parsed.val.left ELSE left

\* get_guidelines as one function of what the fetch did.
GuidelinesOutcome(fetched, left) == Returned(Parsed(fetched, left))

\* ------------------------------------------------------------------- State
VARIABLES
    li_element,     \* _process_li_content: the li, as the tokens of its content
    li_pc,          \* _process_li_content: the statement reached
    html_str,       \* _process_li_content: local html_str / text
    li_lines,       \* _process_li_content: local lines
    li_text,        \* _process_li_content: the value returned
    list_element,   \* _convert_list: the ul or ol element
    list_pc,        \* _convert_list: the statement reached
    list_i,         \* _convert_list: the index enumerate() is at
    lines,          \* _convert_list: local lines
    list_text,      \* _convert_list: the value returned
    items,          \* process_json_data: the argument
    asm_pc,         \* process_json_data: the statement reached
    asm_i,          \* process_json_data: how many items the loop has taken
    current_category, \* process_json_data: local current_category
    sections,       \* process_json_data: local sections
    asm_result,     \* process_json_data: Ok(document) or Raise(exception)
    script_tags,    \* extract_json_data: content.find_all('script', type='application/json')
    loc_pc,         \* extract_json_data: the statement reached
    loc_i,          \* extract_json_data: how many scripts the loop has taken
    json_data,      \* extract_json_data: the value returned
    fetcher,        \* the GuidelinesFetcher: its fields
    pc,             \* get_guidelines: where each call is
    fetched,        \* get_guidelines: what each call's _fetch_from_url did
    requests,       \* how many GET requests each call has issued
    outcome,        \* get_guidelines: [returns |-> text] or [raises |-> exc], per call
    left_category   \* the category the last process_json_data call ended with

liVars == <<li_element, li_pc, html_str, li_lines, li_text>>
listVars == <<list_element, list_pc, list_i, lines, list_text>>
asmVars == <<items, asm_pc, asm_i, current_category, sections, asm_result>>
locVars == <<script_tags, loc_pc, loc_i, json_data>>
orchVars == <<fetcher, pc, fetched, requests, outcome, left_category>>
vars == <<liVars, listVars, asmVars, locVars, orchVars>>

\* ------------------------------------------------- _process_li_content steps
LiAlphabet == {"a", " ", "<b>", "</b>", "<br/>", "<i>"}

\* Serialised markup closes every element it opens.
ClosesBold(s) == \A k \in 1..Len(s) : s[k] = "<b>" => \E j \in (k + 1)..Len(s) : s[j] = "</b>"

LiElements == {s \in SeqsUpTo(LiAlphabet, MaxLiLen) : ClosesBold(s)}

LiIdle ==
    /\ li_element = <<>>
    /\ li_pc = "off"
    /\ html_str = <<>>
    /\ li_lines = <<>>
    /\ li_text = <<>>

LiInit ==
    /\ li_element \in LiElements
    /\ li_pc = "str"
    /\ html_str = <<>>
    /\ li_lines = <<>>
    /\ li_text = <<>>

\* html_str = str(li_element)
LiStr ==
    /\ li_pc = "str"
    /\ html_str' = Serialise(li_element)
    /\ li_pc' = "bold"
    /\ UNCHANGED <<li_element, li_lines, li_text>>
    /\ UNCHANGED <<listVars, asmVars, locVars, orchVars>>

\* html_str = CompiledRegex.BOLD_TAG.sub(r'**\1**', html_str)
LiBold ==
    /\ li_pc = "bold"
    /\ html_str' = BOLD_TAG_sub(html_str)
    /\ li_pc' = "br"
    /\ UNCHANGED <<li_element, li_lines, li_text>>
    /\ UNCHANGED <<listVars, asmVars, locVars, orchVars>>

\* html_str = CompiledRegex.BR_TAG.sub(Constants.LINEBREAK_MARKER, html_str)
LiBr ==
    /\ li_pc = "br"
    /\ html_str' = BR_TAG_sub(html_str)
    /\ li_pc' = "tags"
    /\ UNCHANGED <<li_element, li_lines, li_text>>
    /\ UNCHANGED <<listVars, asmVars, locVars, orchVars>>

\* text = CompiledRegex.HTML_TAG.sub('', html_str).strip()
LiTags ==
    /\ li_pc = "tags"
    /\ html_str' = Strip(HTML_TAG_sub(html_str))
    /\ li_pc' = "split"
    /\ UNCHANGED <<li_element, li_lines, li_text>>
    /\ UNCHANGED <<listVars, asmVars, locVars, orchVars>>

\* lines = [...]; return Constants.MARKDOWN_LINE_BREAK.join(lines)
LiSplitJoin ==
    /\ li_pc = "split"
    /\ li_lines' = SplitLines(html_str)
    /\ li_text' = Join(SplitLines(html_str), MARKDOWN_LINE_BREAK)
    /\ li_pc' = "done"
    /\ UNCHANGED <<li_element, html_str>>
    /\ UNCHANGED <<listVars, asmVars, locVars, orchVars>>

LiNext == LiStr \/ LiBold \/ LiBr \/ LiTags \/ LiSplitJoin

\* ---------------------------------------------------------- _convert_list steps
LiPool ==
    { <<"a">>, <<>>, <<" ">>, <<"<br/>">>, <<"a", "<br/>", "a">>, <<"<b>", "a", "</b>">>,
      <<"a", "<ul>", "<li>", "a", "</li>", "</ul>">> }

ListChildren ==
    {[tag |-> "li", content |-> c] : c \in LiPool} \cup {[tag |-> "text", text |-> <<"\n">>]}

ListElements ==
    {[tag |-> t, children |-> ch] : t \in {"ul", "ol"}, ch \in SeqsUpTo(ListChildren, MaxLis)}

ListIdle ==
    /\ list_element = [tag |-> "ul", children |-> <<>>]
    /\ list_pc = "off"
    /\ list_i = 0
    /\ lines = <<>>
    /\ list_text = <<>>

ListInit ==
    /\ list_element \in ListElements
    /\ list_pc = "loop"
    /\ list_i = 0
    /\ lines = <<>>
    /\ list_text = <<>>

\* One turn of: for i, li in enumerate(list_element.find_all('li', recursive=False))
ListIter ==
    /\ list_pc = "loop"
    /\ list_i < Len(find_all_li(list_element))
    /\ lines' = lines \o ListLine(list_element.tag, list_i,
                                  process_li_content(find_all_li(list_element)[list_i + 1].content))
    /\ list_i' = list_i + 1
    /\ UNCHANGED <<list_element, list_pc, list_text>>
    /\ UNCHANGED <<liVars, asmVars, locVars, orchVars>>

\* return '\n'.join(lines)
ListReturn ==
    /\ list_pc = "loop"
    /\ list_i = Len(find_all_li(list_element))
    /\ list_text' = Join(lines, <<"\n">>)
    /\ list_pc' = "done"
    /\ UNCHANGED <<list_element, list_i, lines>>
    /\ UNCHANGED <<liVars, asmVars, locVars, orchVars>>

ListNext == ListIter \/ ListReturn

\* ------------------------------------------------------ process_json_data steps
Fields(heading, content) == [pytype |-> "dict", itemHeading |-> heading, itemLongLoc |-> content]
Meta(tags) == [pytype |-> "dict", tags |-> tags]
Tag(name) == [pytype |-> "dict", name |-> name]
Item(fields, metadata) == [pytype |-> "dict", fields |-> fields, metadata |-> metadata]

H1 == PyStr(<<"H1">>)
H2 == PyStr(<<"H2">>)
NA == PyStr(<<"NA">>)
TagA == Tag(PyStr(<<"A">>))
TagB == Tag(PyStr(<<"B">>))
CatA == Meta(PyList(<<TagA>>))
CatB == Meta(PyList(<<TagB>>))

Li(content) == [tag |-> "li", content |-> content]
BodyP == Html(<<[tag |-> "p", strings |-> << <<" ", "a">>, <<" ">>, <<"a", " ">> >>]>>)
BodyBlank == Html(<<[tag |-> "text", text |-> <<" ", "\n">>]>>)
BodyEmptyList == Html(<<[tag |-> "ul", children |-> <<Li(<<" ">>)>>]>>)
BodyList == Html(<<[tag |-> "ol", children |-> <<Li(<<"a">>), Li(<<>>), Li(<<"a", "<br/>", "a">>)>>],
                   [tag |-> "text", text |-> <<"\n">>],
                   [tag |-> "text", text |-> <<"a", "\n">>]>>)
BodyTable == Html(<<[tag |-> "table",
                     rows |-> << << << <<"a">> >>, << <<"a">>, <<" ">> >> >>,
                                 <<>>,
                                 << << <<" ", "a">> >>, <<>> >> >>]>>)

ItemPool ==
    { Item(Missing, CatA),
      Item(Fields(NA, BodyP), CatB),
      Item(Fields(PyStr(<<>>), Missing), CatA),
      Item(Fields(Missing, Missing), CatB),
      Item(Fields(H1, Missing), CatA),
      Item(Fields(H2, BodyList), CatA),
      Item(Fields(H1, Html(<<>>)), CatB),
      Item(Fields(H2, BodyBlank), Missing),
      Item(Fields(H1, BodyEmptyList), Meta(PyList(<<>>))),
      Item(Fields(H2, BodyP), Meta(PyList(<<Tag(PyStr(<<>>)), TagA>>))),
      Item(Fields(H1, BodyTable), Meta(PyList(<<TagB, TagA>>))),
      Item(PyStr(<<"a">>), CatA),
      Item(Fields(H2, Missing), PyStr(<<"a">>)),
      Item(Fields(H1, Missing), Meta(PyList(<<PyStr(<<"A">>)>>))) }

AsmIdle ==
    /\ items = <<>>
    /\ asm_pc = "off"
    /\ asm_i = 0
    /\ current_category = None
    /\ sections = <<>>
    /\ asm_result = None

\* sections = []; current_category = None
AsmInit ==
    /\ items \in SeqsUpTo(ItemPool, MaxItems)
    /\ asm_pc = "loop"
    /\ asm_i = 0
    /\ current_category = InitialCategory(None)
    /\ sections = <<>>
    /\ asm_result = None

\* One turn of: for item in items
AsmItem ==
    /\ asm_pc = "loop"
    /\ asm_i < Len(items)
    /\ \E r \in {ItemStep(items[asm_i + 1], asm_i + 1, current_category, sections)} :
       IF r.ok
       THEN /\ current_category' = r.val.current_category
            /\ sections' = r.val.sections
            /\ asm_i' = asm_i + 1
            /\ UNCHANGED <<asm_pc, asm_result>>
       ELSE /\ asm_pc' = "raised"
            /\ asm_result' = r
            /\ UNCHANGED <<current_category, sections, asm_i>>
    /\ UNCHANGED items
    /\ UNCHANGED <<liVars, listVars, locVars, orchVars>>

\* return Constants.SECTION_SEPARATOR.join(sections)
AsmReturn ==
    /\ asm_pc = "loop"
    /\ asm_i = Len(items)
    /\ asm_result' = Ok(Document(sections))
    /\ asm_pc' = "done"
    /\ UNCHANGED <<items, asm_i, current_category, sections>>
    /\ UNCHANGED <<liVars, listVars, locVars, orchVars>>

AsmNext == AsmItem \/ AsmReturn

\* ------------------------------------------------------ extract_json_data steps
\* n items: the first as given, the others copies of rest.
ItemsOf(first, rest, n) == PyList([k \in 1..n |-> IF k = 1 THEN first ELSE rest])

ValidA == Item(Fields(H1, BodyP), CatA)
ValidB == Item(Fields(H2, Missing), CatB)
JsonText == PyStr(<<"{">>)

ScriptPool ==
    { Script(None, Raise("JSONDecodeError")),
      Script(PyStr(<<>>), Raise("JSONDecodeError")),
      Script(PyStr(<<"a">>), Raise("JSONDecodeError")),
      Script(JsonText, Ok(PyList(<<ValidA>>))),
      Script(JsonText, Ok(Json(Missing))),
      Script(JsonText, Ok(Json(PyStr(<<"a">>)))),
      Script(JsonText, Ok(Json(Data(Missing)))),
      Script(JsonText, Ok(Json(Data(PyStr(<<"a">>))))),
      Script(JsonText, Ok(Json(Data(PyList(<<>>))))),
      Script(JsonText, Ok(Json(Data(ItemsOf(ValidA, ValidB, MIN_ITEMS_COUNT - 1))))),
      Script(JsonText, Ok(Json(Data(ItemsOf(PyStr(<<"a">>), ValidA, MIN_ITEMS_COUNT))))),
      Script(JsonText, Ok(Json(Data(ItemsOf(Item(Missing, CatA), ValidA, MIN_ITEMS_COUNT))))),
      Script(JsonText, Ok(Json(Data(ItemsOf(ValidA, ValidB, MIN_ITEMS_COUNT))))),
      Script(JsonText, Ok(Json(Data(ItemsOf(ValidB, ValidA, MIN_ITEMS_COUNT + 1))))) }

LocIdle ==
    /\ script_tags = <<>>
    /\ loc_pc = "off"
    /\ loc_i = 0
    /\ json_data = None

LocInit ==
    /\ script_tags \in SeqsUpTo(ScriptPool, MaxScripts)
    /\ loc_pc = "loop"
    /\ loc_i = 0
    /\ json_data = None

\* One turn of: for script in script_tags
LocScript ==
    /\ loc_pc = "loop"
    /\ loc_i < Len(script_tags)
    /\ \E r \in {ScriptStep(script_tags[loc_i + 1])} :
       IF r.found
       THEN /\ json_data' = r.items
            /\ loc_pc' = "done"
       ELSE UNCHANGED <<json_data, loc_pc>>
    /\ loc_i' = loc_i + 1
    /\ UNCHANGED script_tags
    /\ UNCHANGED <<liVars, listVars, asmVars, orchVars>>

\* return None
LocReturnNone ==
    /\ loc_pc = "loop"
    /\ loc_i = Len(script_tags)
    /\ json_data' = None
    /\ loc_pc' = "done"
    /\ UNCHANGED <<script_tags, loc_i>>
    /\ UNCHANGED <<liVars, listVars, asmVars, orchVars>>

LocNext == LocScript \/ LocReturnNone

\* ---------------------------------------------------------- get_guidelines steps
DEFAULT_TIMEOUT == 30

Calls == 1..NumCalls

Page(markup, rejected, scripts, strings) ==
    [markup |-> markup, rejected |-> rejected, scripts |-> scripts, strings |-> strings]

ItemsScript(its) == Script(JsonText, Ok(Json(Data(its))))
BadScript == Script(PyStr(<<"a">>), Raise("JSONDecodeError"))
VisibleText == << <<" ", "a", " ", "\n", " ", "\n", "a">>, <<"\n">>, <<"a", " ">> >>

PagePool ==
    { Page(FALSE, FALSE, <<>>, <<>>),
      Page(FALSE, FALSE, <<>>, << <<" ", "\n">> >>),
      Page(FALSE, FALSE, <<>>, << <<"a">> >>),
      Page(TRUE, FALSE, <<>>, VisibleText),
      Page(TRUE, FALSE, <<>>, << <<" ">> >>),
      Page(TRUE, TRUE, <<>>, VisibleText),
      Page(TRUE, FALSE, <<BadScript>>, VisibleText),
      Page(TRUE, FALSE, <<ItemsScript(ItemsOf(ValidA, ValidB, MIN_ITEMS_COUNT - 1))>>, VisibleText),
      Page(TRUE, FALSE,
           <<ItemsScript(ItemsOf(Item(Fields(NA, BodyP), CatA), Item(Missing, CatB),
                                 MIN_ITEMS_COUNT))>>,
           VisibleText),
      Page(TRUE, FALSE,
           <<BadScript, ItemsScript(ItemsOf(ValidB, ValidA, MIN_ITEMS_COUNT)),
             ItemsScript(ItemsOf(ValidA, ValidB, MIN_ITEMS_COUNT))>>,
           VisibleText),
      Page(TRUE, FALSE,
           <<ItemsScript(ItemsOf(ValidA, Item(Fields(H2, BodyList), CatA), MIN_ITEMS_COUNT + 1))>>,
           <<>>),
      Page(TRUE, FALSE,
           <<ItemsScript(ItemsOf(ValidA, Item(PyStr(<<"a">>), CatA), MIN_ITEMS_COUNT))>>,
           VisibleText) }

\* What _fetch_from_url can do: raise (no connection, the timeout, a status
\* raise_for_status refuses) or return response.text.
FetchOutcomes == {Raise(e) : e \in FetchErrors} \cup {Ok(html) : html \in PagePool}

NotFetched == [ok |-> FALSE, exc |-> "none yet"]
NoOutcome == [pending |-> TRUE]

OrchIdle ==
    /\ fetcher = [timeout |-> DEFAULT_TIMEOUT]
    /\ pc = [c \in Calls |-> "off"]
    /\ fetched = [c \in Calls |-> NotFetched]
    /\ requests = [c \in Calls |-> 0]
    /\ outcome = [c \in Calls |-> NoOutcome]
    /\ left_category = None

\* GuidelinesFetcher.__init__, and the calls not yet made.
OrchInit ==
    /\ fetcher = [timeout |-> DEFAULT_TIMEOUT]
    /\ pc = [c \in Calls |-> "start"]
    /\ fetched = [c \in Calls |-> NotFetched]
    /\ requests = [c \in Calls |-> 0]
    /\ outcome = [c \in Calls |-> NoOutcome]
    /\ left_category = None

\* get_guidelines up to its await: _fetch_from_url sends the one GET.
CallGet(c) ==
    /\ pc[c] = "start"
    /\ pc' = [pc EXCEPT ![c] = "awaiting"]
    /\ requests' = [requests EXCEPT ![c] = @ + 1]
    /\ UNCHANGED <<fetcher, fetched, outcome, left_category>>
    /\ UNCHANGED <<liVars, listVars, asmVars, locVars>>

\* The await is over: _fetch_from_url returns or raises, and get_guidelines
\* runs to its end without another suspension.
Resume(c) ==
    /\ pc[c] = "awaiting"
    /\ \E f \in FetchOutcomes :
           \E parsed \in {Parsed(f, left_category)} :
               /\ fetched' = [fetched EXCEPT ![c] = f]
               /\ outcome' = [outcome EXCEPT ![c] = Returned(parsed)]
               /\ left_category' = LeftBehind(parsed, left_category)
    /\ pc' = [pc EXCEPT ![c] = "done"]
    /\ UNCHANGED <<fetcher, requests>>
    /\ UNCHANGED <<liVars, listVars, asmVars, locVars>>

Next == \E c \in Calls : CallGet(c) \/ Resume(c)

\* ------------------------------------------------------------ Specifications
\* get_guidelines, called NumCalls times on one GuidelinesFetcher.
Init == OrchInit /\ LiIdle /\ ListIdle /\ AsmIdle /\ LocIdle
Spec == Init /\ [][Next]_vars

\* _process_li_content on every li of LiElements.
InitLi == LiInit /\ ListIdle /\ AsmIdle /\ LocIdle /\ OrchIdle
SpecLi == InitLi /\ [][LiNext]_vars

\* _convert_list on every list of ListElements.
InitList == ListInit /\ LiIdle /\ AsmIdle /\ LocIdle /\ OrchIdle
SpecList == InitList /\ [][ListNext]_vars

\* process_json_data on every item sequence over ItemPool.
InitAsm == AsmInit /\ LiIdle /\ ListIdle /\ LocIdle /\ OrchIdle
SpecAsm == InitAsm /\ [][AsmNext]_vars

\* extract_json_data on every script sequence over ScriptPool.
InitLoc == LocInit /\ LiIdle /\ ListIdle /\ AsmIdle /\ OrchIdle
SpecLoc == InitLoc /\ [][LocNext]_vars

\* --------------------------------------------------------------- C10
Count(s, S) == Len(SelectSeq(s, LAMBDA t : t \in S))

NoPadding(s) == s # <<>> /\ s[1] \notin Whitespace /\ s[Len(s)] \notin Whitespace

\* A <b> that still has a </b> behind it.
OpenBoldPair(s) == \E k \in 1..Len(s) : s[k] = "<b>" /\ \E j \in (k + 1)..Len(s) : s[j] = "</b>"

\* A <b> inside a <b>: the pattern's match ends at the inner </b>.
NestedBold(s) ==
    \E k \in 1..Len(s) : \E j \in (k + 1)..Len(s) :
        s[k] = "<b>" /\ s[j] = "<b>" /\ \A m \in (k + 1)..(j - 1) : s[m] # "</b>"

\* The chunks of the li's content between its <br> tags that hold visible text.
TextChunks(li) ==
    SelectSeq(Split(BR_TAG_sub(li), LINEBREAK_MARKER), LAMBDA c : Count(c, {"a"}) > 0)

\* C10: the list-item text is made by three ordered passes (bold pairs to **..**,
\* then every <br> to the break marker, then all other tags removed), then split
\* on the marker, stripped, empty segments dropped and joined with "  \n".  So no
\* segment is empty or padded, the text never starts or ends with a break,
\* consecutive, leading and trailing <br> add no break, "Hello<br>World" gives
\* "Hello  \nWorld" and "<b>X</b> rest" gives "**X** rest".
C10_ListItemText ==
    /\ li_pc \in {"br", "tags", "split"} /\ ~NestedBold(li_element) => ~OpenBoldPair(html_str)
    /\ li_pc = "br" => Count(html_str, BrTokens) = Count(li_element, BrTokens)
    /\ li_pc \in {"tags", "split"} =>
           /\ Count(html_str, BrTokens) = 0
           /\ Count(html_str, {LINEBREAK_MARKER}) = Count(li_element, BrTokens)
    /\ li_pc = "tags" => Count(html_str, {"<li>", "</li>", "<i>"}) =
                             2 + Count(li_element, {"<i>"})
    /\ li_pc = "split" => Count(html_str, TagTokens) = 0
    /\ li_pc = "done" =>
           /\ \A k \in 1..Len(li_lines) : NoPadding(li_lines[k])
           /\ li_text = Join(li_lines, MARKDOWN_LINE_BREAK)
           /\ li_text # <<>> => NoPadding(li_text)
           /\ Count(li_text, TagTokens \cup {LINEBREAK_MARKER}) = 0
           /\ Count(li_text, {"\n"}) = (IF li_lines = <<>> THEN 0 ELSE Len(li_lines) - 1)
           /\ Len(li_lines) <= Count(li_element, BrTokens) + 1
           /\ SelectSeq(li_text, LAMBDA t : t = "a") = SelectSeq(li_element, LAMBDA t : t = "a")
           /\ Count(li_element, {"<b>"}) = 0 => Len(li_lines) = Len(TextChunks(li_element))
           /\ li_element = <<"a", "<br/>", "a">> => li_text = <<"a", " ", " ", "\n", "a">>
           /\ li_element = <<"<b>", "a", "</b>", " ", "a">> =>
                  li_text = <<"**", "a", "**", " ", "a">>

\* A li with a leading <br> and two consecutive <br> between its two texts.
C10_Witness ==
    /\ li_pc = "done"
    /\ li_element = <<"<br/>", "a", "<br/>", "<br/>", "a">>
    /\ li_text = <<"a", " ", " ", "\n", "a">>


\* ---------------------------------------------------------------- C9
\* The text of the k-th direct li child (1-based).
ItemText(k) == process_li_content(find_all_li(list_element)[k].content)

\* The entry the claim gives the k-th direct li child.
Entry(k) ==
    IF list_element.tag = "ol" THEN <<ToString(k), ".", " ">> \o ItemText(k)
    ELSE <<"-", " ">> \o ItemText(k)

\* The direct li children with text.
NonEmptyLis == {k \in 1..Len(find_all_li(list_element)) : ItemText(k) # <<>>}

\* C9 as stated: every direct li child gives exactly one entry, "<k>. <text>"
\* for an ol and "- <text>" for a ul, so n direct li children give n entries,
\* those of an ol numbered 1..n without gaps.
C9_Original ==
    list_pc = "done" =>
        /\ Len(lines) = Len(find_all_li(list_element))
        /\ \A k \in 1..Len(lines) : lines[k] = Entry(k)

\* C9 amended: the entries are those of the direct li children whose item text
\* is not empty, in order; the entry of an ol's child carries the child's
\* 1-based position among all direct li children, so a child with empty text
\* gives no entry and leaves a gap in the numbers.  Nested li give no entry.
C9_ListEntries ==
    /\ list_pc = "loop" => Len(lines) = Cardinality({k \in NonEmptyLis : k <= list_i})
    /\ list_pc = "done" =>
           /\ Len(lines) = Cardinality(NonEmptyLis)
           /\ \A j \in 1..Len(lines) :
                  \E k \in NonEmptyLis :
                      /\ Cardinality({m \in NonEmptyLis : m <= k}) = j
                      /\ lines[j] = Entry(k)
           /\ list_text = Join(lines, <<"\n">>)

\* An ol whose second direct li is empty and whose third holds a nested list.
C9_Witness ==
    /\ list_pc = "done"
    /\ list_element.tag = "ol"
    /\ Len(find_all_li(list_element)) = 3
    /\ ItemText(1) # <<>> /\ ItemText(2) = <<>>
    /\ Count(find_all_li(list_element)[3].content, {"<li>"}) > 0
    /\ lines = <<Entry(1), Entry(3)>>

\* ------------------------------------------------------------- C6, C7, C8
\* The validity rule as the claims state it: the item has 'fields', and its
\* itemHeading is there, not empty and not "NA".
ValidByRule(item) ==
    /\ item.fields # Missing
    /\ item.fields.itemHeading # Missing
    /\ item.fields.itemHeading # PyStr(<<>>)
    /\ item.fields.itemHeading # NA

\* Items that fail the rule (an item whose 'fields' is no mapping has no heading).
InvalidByRule(item) == item.fields = Missing \/ (IsDict(item.fields) /\ ~ValidByRule(item))

RemoveAt(seq, k) == SubSeq(seq, 1, k - 1) \o SubSeq(seq, k + 1, Len(seq))

\* C6: deleting an invalid item, from any position, leaves the assembled
\* output unchanged.
C6_InvalidItemsTransparent ==
    asm_pc \in {"done", "raised"} =>
        \A k \in 1..Len(items) :
            InvalidByRule(items[k]) => process_json_data(RemoveAt(items, k)) = asm_result

\* Three items, the middle one invalid with a category tag of its own, the
\* outer two valid in one category: one ## heading only.
C6_Witness ==
    /\ asm_pc = "done"
    /\ Len(items) = 3
    /\ items[2] = Item(Fields(NA, BodyP), CatB)
    /\ ValidByRule(items[1]) /\ ValidByRule(items[3])
    /\ Len(SelectSeq(sections, LAMBDA x : x.kind = "cat")) = 1

\* C7: no section is empty or whitespace-only; each is a "## <category>"
\* heading, a "### <itemHeading>" heading or a stripped non-empty body.
C7_SectionsNotBlank ==
    \A k \in 1..Len(sections) :
        LET x == sections[k] IN
        /\ Strip(x.text) # <<>>
        /\ x.kind \in {"cat", "head", "body"}
        /\ x.kind = "cat" =>
               x.text = <<"##", " ">> \o items[x.item].metadata.tags.elems[1].name.s
        /\ x.kind = "head" => x.text = <<"###", " ">> \o items[x.item].fields.itemHeading.s
        /\ x.kind = "body" => x.text = Strip(x.text)

\* A valid item whose itemLongLoc converts to blank text gave a heading only,
\* and one with a list did give a body.
C7_Witness ==
    /\ asm_pc = "done"
    /\ \E k \in 1..Len(items) :
           /\ items[k] = Item(Fields(H1, BodyEmptyList), Meta(PyList(<<>>)))
           /\ \E j \in 1..Len(sections) : sections[j].item = k
           /\ \A j \in 1..Len(sections) : sections[j].item = k => sections[j].kind = "head"
    /\ \E j \in 1..Len(sections) : sections[j].kind = "body"

\* The category the claim resolves: the name of the first tag in metadata.tags.
CategoryByRule(item) ==
    IF /\ item.metadata # Missing /\ IsDict(item.metadata)
       /\ item.metadata.tags # Missing /\ IsList(item.metadata.tags)
       /\ item.metadata.tags.elems # <<>>
       /\ IsDict(item.metadata.tags.elems[1])
       /\ item.metadata.tags.elems[1].name \notin {Missing, PyStr(<<>>)}
    THEN item.metadata.tags.elems[1].name
    ELSE None

\* The valid items before index n that carry a category.
Carriers(n) == {j \in 1..(n - 1) : ValidByRule(items[j]) /\ CategoryByRule(items[j]) # None}

\* The current category when the loop reaches item n.
CurrentAt(n) ==
    IF Carriers(n) = {} THEN None
    ELSE CategoryByRule(items[CHOOSE j \in Carriers(n) : \A m \in Carriers(n) : m <= j])

Heads == SelectSeq(sections, LAMBDA x : x.kind = "head")
Cats == SelectSeq(sections, LAMBDA x : x.kind = "cat")

\* C8: a "##" section is emitted exactly when a valid item's category is there
\* and differs from the current one, which it then becomes; so there is one
\* "###" section per valid item, in input order, every "##" section is
\* followed at once by a "###" section, and two successive "##" sections never
\* carry the same category.
C8_CategoryHeadings ==
    asm_pc \in {"loop", "done"} =>
        /\ current_category = CurrentAt(asm_i + 1)
        /\ \A j \in 1..asm_i :
               (\E k \in 1..Len(sections) : sections[k].kind = "cat" /\ sections[k].item = j)
                   <=> /\ ValidByRule(items[j])
                       /\ CategoryByRule(items[j]) # None
                       /\ CategoryByRule(items[j]) # CurrentAt(j)
        /\ Len(Heads) = Cardinality({j \in 1..asm_i : ValidByRule(items[j])})
        /\ \A k \in 1..Len(Heads) :
               /\ ValidByRule(items[Heads[k].item])
               /\ Heads[k].text = <<"###", " ">> \o items[Heads[k].item].fields.itemHeading.s
               /\ k > 1 => Heads[k - 1].item < Heads[k].item
        /\ \A k \in 1..Len(sections) :
               sections[k].kind = "cat" =>
                   /\ k < Len(sections)
                   /\ sections[k + 1].kind = "head"
                   /\ sections[k + 1].item = sections[k].item
        /\ \A k \in 1..Len(Cats) :
               /\ Cats[k].text = <<"##", " ">> \o CategoryByRule(items[Cats[k].item]).s
               /\ k > 1 => Cats[k - 1].text # Cats[k].text

\* Categories A, none, A on three valid items: the third emits no heading; and
\* a run A, B, A emits three.
C8_Witness ==
    /\ asm_pc = "done"
    /\ Len(items) = 3
    /\ \A k \in 1..3 : ValidByRule(items[k])
    /\ CategoryByRule(items[1]) = PyStr(<<"A">>)
    /\ CategoryByRule(items[2]) = None
    /\ CategoryByRule(items[3]) = PyStr(<<"A">>)
    /\ Len(Cats) = 1 /\ Len(Heads) = 3

\* ---------------------------------------------------------------- C5
\* A block is acceptable iff its text parses to a mapping with key 'data', a
\* mapping with key 'items', a sequence of at least 10 elements whose first is
\* a mapping with key 'fields'.
Acceptable(script) ==
    /\ script.string # None
    /\ script.string # PyStr(<<>>)
    /\ script.loads.ok
    /\ LET v == script.loads.val IN
       /\ v.pytype = "dict"
       /\ v.data # Missing /\ v.data.pytype = "dict"
       /\ v.data.items # Missing /\ v.data.items.pytype = "list"
       /\ Len(v.data.items.elems) >= 10
       /\ v.data.items.elems[1].pytype = "dict"
       /\ v.data.items.elems[1].fields # Missing

AcceptableAt == {k \in 1..Len(script_tags) : Acceptable(script_tags[k])}

\* C5: the result is the item list of the first acceptable block, None iff no
\* block is acceptable; other blocks are skipped and no block behind the
\* first acceptable one is looked at.
C5_FirstAcceptableBlock ==
    /\ loc_pc = "loop" => \A k \in 1..loc_i : ~Acceptable(script_tags[k])
    /\ loc_pc = "done" =>
           IF AcceptableAt = {}
           THEN json_data = None /\ loc_i = Len(script_tags)
           ELSE LET first == CHOOSE k \in AcceptableAt : \A m \in AcceptableAt : k <= m
                IN  /\ json_data = script_tags[first].loads.val.data.items
                    /\ loc_i = first

\* A block of 9 items and one that does not parse are skipped, the list of
\* exactly 10 is returned, the acceptable block behind it is not reached.
C5_Witness ==
    /\ loc_pc = "done"
    /\ Len(script_tags) = 3
    /\ script_tags[1].loads.ok /\ ~Acceptable(script_tags[1])
    /\ Acceptable(script_tags[2]) /\ Len(script_tags[2].loads.val.data.items.elems) = 10
    /\ Acceptable(script_tags[3])
    /\ script_tags[3] # script_tags[2]
    /\ json_data = script_tags[2].loads.val.data.items

\* ------------------------------------------------------------ C1 .. C4
Done(c) == pc[c] = "done"

\* What call c's pipeline made, run on its own: Ok([doc, left]) or the
\* exception raised in it.
Made(c) == Parsed(fetched[c], None)

\* C1: get_guidelines never raises to its caller; it returns a string, and
\* the sentinel ERROR_MESSAGE whenever the fetch or a later step raised.
C1_NeverRaises ==
    \A c \in Calls :
        /\ pc[c] \in {"start", "awaiting", "done"}
        /\ Done(c) =>
               /\ DOMAIN outcome[c] = {"returns"}
               /\ \A k \in 1..Len(outcome[c].returns) : outcome[c].returns[k] \in STRING
               /\ ~Made(c).ok => outcome[c].returns = ERROR_MESSAGE

\* One call whose fetch timed out and one whose assembly raised.
C1_Witness ==
    /\ Done(1) /\ Done(2)
    /\ fetched[1] = Raise("TimeoutException")
    /\ fetched[2].ok /\ Made(2) = Raise("AttributeError")
    /\ outcome[1] = [returns |-> ERROR_MESSAGE]
    /\ outcome[2] = [returns |-> ERROR_MESSAGE]

\* A page the parser takes, with an acceptable script block.
Located(html) ==
    /\ ~IsBlankPage(html) /\ ~html.rejected
    /\ \E k \in 1..Len(html.scripts) : Acceptable(html.scripts[k])

\* The item list of the first acceptable script block.
LocatedItems(html) ==
    html.scripts[CHOOSE k \in 1..Len(html.scripts) :
                     /\ Acceptable(html.scripts[k])
                     /\ \A m \in 1..(k - 1) : ~Acceptable(html.scripts[m])].loads.val.data.items.elems

\* The page has visible text that is not blank.
HasVisibleText(html) == \E k \in 1..Len(html.strings) : Strip(html.strings[k]) # <<>>

\* The locator succeeds, no item of its list is valid, the page shows text.
NoValidItemCase(html) ==
    /\ Located(html)
    /\ \A k \in 1..Len(LocatedItems(html)) : InvalidByRule(LocatedItems(html)[k])
    /\ HasVisibleText(html)

\* The locator returns absent and the page shows text.
NotLocatedCase(html) ==
    /\ ~IsBlankPage(html) /\ ~html.rejected
    /\ \A k \in 1..Len(html.scripts) : ~Acceptable(html.scripts[k])
    /\ HasVisibleText(html)

\* C2 as stated: the fallback text is returned when the locator returns absent
\* and also when it succeeds but no item is valid.
C2_Original ==
    \A c \in Calls :
        Done(c) /\ fetched[c].ok /\ (NotLocatedCase(fetched[c].val) \/ NoValidItemCase(fetched[c].val))
            => outcome[c] = [returns |-> extract_all_text(fetched[c].val)]

\* C2 amended: the fallback text is returned only when the locator returns
\* absent; when it succeeds but no item is valid, the sentinel is returned.
C2_FallbackOnlyWhenNotLocated ==
    \A c \in Calls :
        Done(c) /\ fetched[c].ok =>
            /\ NotLocatedCase(fetched[c].val) =>
                   /\ outcome[c] = [returns |-> extract_all_text(fetched[c].val)]
                   /\ outcome[c].returns # ERROR_MESSAGE
            /\ NoValidItemCase(fetched[c].val) => outcome[c] = [returns |-> ERROR_MESSAGE]

\* One call on a page with ten invalid items and visible text, one on a page
\* whose only script block does not parse.
C2_Witness ==
    /\ Done(1) /\ Done(2)
    /\ fetched[1].ok /\ NoValidItemCase(fetched[1].val)
    /\ fetched[2].ok /\ NotLocatedCase(fetched[2].val) /\ fetched[2].val.scripts # <<>>

\* C3: the value returned is never empty or whitespace-only: the sentinel when
\* the fetched HTML is blank or the text made is blank, else the text made.
C3_NeverBlank ==
    \A c \in Calls :
        Done(c) /\ DOMAIN outcome[c] = {"returns"} =>
            /\ Strip(outcome[c].returns) # <<>>
            /\ fetched[c].ok /\ IsBlankPage(fetched[c].val) => outcome[c].returns = ERROR_MESSAGE
            /\ Made(c).ok /\ Strip(Made(c).val.doc) = <<>> => outcome[c].returns = ERROR_MESSAGE
            /\ Made(c).ok /\ Strip(Made(c).val.doc) # <<>> => outcome[c].returns = Made(c).val.doc

\* One call on a page with markup and no visible text, one that returns a
\* document.
C3_Witness ==
    /\ Done(1) /\ Done(2)
    /\ fetched[1].ok /\ ~IsBlankPage(fetched[1].val) /\ Made(1).ok /\ Made(1).val.doc = <<>>
    /\ fetched[2].ok /\ Made(2).ok /\ outcome[2].returns = Made(2).val.doc
    /\ outcome[2].returns # ERROR_MESSAGE

\* C4: calls on one GuidelinesFetcher are independent: each returns what it
\* would return run alone on what it fetched, none changes the fetcher, and
\* each issues exactly one request.
C4_CallsIndependent ==
    /\ fetcher = [timeout |-> DEFAULT_TIMEOUT]
    /\ \A c \in Calls :
           /\ requests[c] = (IF pc[c] = "start" THEN 0 ELSE 1)
           /\ Done(c) => outcome[c] = GuidelinesOutcome(fetched[c], None)

\* Two calls that overlapped, both assembling a document with categories.
C4_Witness ==
    /\ Done(1) /\ Done(2)
    /\ requests = [c \in Calls |-> 1]
    /\ fetched[1].ok /\ fetched[2].ok /\ fetched[1] # fetched[2]
    /\ Located(fetched[1].val) /\ Located(fetched[2].val)
    /\ outcome[1].returns[1] = "##" /\ outcome[2].returns[1] = "##"
    /\ left_category # None

====
